---- MODULE Spec2Model ----
(***************************************************************************)
(* Model of transport_manager.py: an interactive session (main) that loads *)
(* a trip ledger from CSV_FILE, then loops over a four-entry menu: show    *)
(* data, add trip, plot chart, exit.                                       *)
(*                                                                         *)
(* Representation.                                                         *)
(*   - text typed by the user is a sequence of one-character strings, so   *)
(*     that str.strip() is computed and not assumed;                       *)
(*   - a date typed by the user is a record: blank, a D.M.Y triple of      *)
(*     numbers (the shape "%d.%m.%Y" matches) or any other text;           *)
(*   - a cost is a whole number of CHF: for whole numbers float            *)
(*     arithmetic, repr() and the CSV float parser are exact, so the       *)
(*     number stands for its decimal text as well;                         *)
(*   - an in-memory label cell is [na, s]: a string s, or NaN (na = TRUE); *)
(*   - the file is [exists, rows]; a file row holds the text of each field.*)
(***************************************************************************)
EXTENDS Integers, Sequences, FiniteSets, TLC

VARIABLES
    pc,        \* position of main: "menu" (at the Choice prompt), "done", "crashed"
    df,        \* main's df: the in-memory ledger
    storage,   \* the file CSV_FILE
    out,       \* what the last handled menu choice printed / drew
    exc,       \* the exception that propagated out of main, or "none"
    typed,     \* what was typed at the prompts of add_entry, when the last choice was 2
    saves      \* number of save_data invocations so far in the session

vars == <<pc, df, storage, out, exc, typed, saves>>

\* Largest ledger the model grows by adding.
MaxLen == 2

SUBSCRIPTION_COST == 355

\* datetime.now(): the local date of the session, in ISO order <<Y, m, d>>.
Today == <<2025, 9, 25>>

----------------------------------------------------------------------------
(* Inputs                                                                  *)

Blank == [kind |-> "blank", d |-> 0, m |-> 0, y |-> 0]
JunkDate == [kind |-> "text", d |-> 0, m |-> 0, y |-> 0]
Mar15 == [kind |-> "dmy", d |-> 15, m |-> 3, y |-> 2025]
Feb31 == [kind |-> "dmy", d |-> 31, m |-> 2, y |-> 2025]

DateInputs == {Blank, JunkDate, Mar15, Feb31}

\* What the user types at "From: " and "To: ", before strip().
FromInputs == { <<>>, <<"B">>, <<" ", "B", " ">> }
ToInputs == { <<"Z">> }

NumberText(n) == [kind |-> "num", v |-> n]
OtherText == [kind |-> "text", v |-> 0]

CostInputs == { NumberText(100), NumberText(255), NumberText(400),
                NumberText(-5), OtherText }

Choices == {"1", "2", "3", "4", "5", ""}

Typed(date_input, from_input, to_input, cost_input) ==
    [date |-> date_input, from |-> from_input, to |-> to_input, cost |-> cost_input]

\* Nothing typed: the last choice was not 2.
NoInput == Typed(Blank, <<>>, <<>>, OtherText)

----------------------------------------------------------------------------
(* Pure helpers                                                            *)

Whitespace == {" ", "\t", "\n"}

RECURSIVE lstrip(_)
lstrip(s) ==
    IF s # <<>> /\ Head(s) \in Whitespace THEN lstrip(Tail(s)) ELSE s

RECURSIVE rstrip(_)
rstrip(s) ==
    IF s # <<>> /\ s[Len(s)] \in Whitespace
        THEN rstrip(SubSeq(s, 1, Len(s) - 1))
        ELSE s

strip(s) == rstrip(lstrip(s))

IsLeap(y) == (y % 4 = 0 /\ y % 100 # 0) \/ y % 400 = 0

DaysInMonth(m, y) ==
    IF m = 2 THEN (IF IsLeap(y) THEN 29 ELSE 28)
    ELSE IF m \in {4, 6, 9, 11} THEN 30 ELSE 31

\* A variant of strptime that matches the shape only (no calendar check).
strptime_NoCalendarCheck(date_input) ==
    IF date_input.kind = "dmy" /\ date_input.m \in 1..12 /\ date_input.d \in 1..31
        THEN [ok |-> TRUE, d |-> date_input.d, m |-> date_input.m, y |-> date_input.y]
        ELSE [ok |-> FALSE, d |-> 0, m |-> 0, y |-> 0]

\* datetime.strptime(date_input, "%d.%m.%Y"): a date object, or ValueError (ok = FALSE).
strptime(date_input) ==
    IF /\ date_input.kind = "dmy"
       /\ date_input.y \in 1..9999
       /\ date_input.m \in 1..12
       /\ date_input.d \in 1..DaysInMonth(date_input.m, date_input.y)
        THEN [ok |-> TRUE, d |-> date_input.d, m |-> date_input.m, y |-> date_input.y]
        ELSE [ok |-> FALSE, d |-> 0, m |-> 0, y |-> 0]

\* date_obj.strftime("%Y-%m-%d")
strftime(date_obj) == <<date_obj.y, date_obj.m, date_obj.d>>

\* float(text): a number, or ValueError (ok = FALSE).
float(cost_input) ==
    IF cost_input.kind = "num"
        THEN [ok |-> TRUE, v |-> cost_input.v]
        ELSE [ok |-> FALSE, v |-> 0]

Str(s) == [na |-> FALSE, s |-> s]
NaN == [na |-> TRUE, s |-> <<>>]

max(a, b) == IF a >= b THEN a ELSE b
abs(a) == IF a >= 0 THEN a ELSE -a

\* df["Cost_CHF"].sum()
RECURSIVE ColumnSum(_)
ColumnSum(frame) ==
    IF frame = <<>> THEN 0
    ELSE frame[1].Cost_CHF + ColumnSum(Tail(frame))

----------------------------------------------------------------------------
(* Ledger store                                                            *)

NoFile == [exists |-> FALSE, rows |-> <<>>]

\* The field texts pandas.read_csv reads as NaN in a string column (a part of
\* its default na_values; the empty field is among them).
NaValues == { <<>>, <<"N", "A">>, <<"n", "a", "n">>, <<"N", "a", "N">>,
              <<"n", "u", "l", "l">>, <<"N", "U", "L", "L">>,
              <<"N", "o", "n", "e">>, <<"N", "/", "A">>, <<"n", "/", "a">> }

\* to_csv writes a string as its text and NaN as na_rep = "" (an empty field).
FieldText(cell) == IF cell.na THEN <<>> ELSE cell.s

\* read_csv turns an NA field into NaN and keeps any other text as a string.
FieldValue(text) == IF text \in NaValues THEN NaN ELSE Str(text)

\* df.to_csv(CSV_FILE, index=False): the full frame overwrites the file.
to_csv(frame) ==
    [exists |-> TRUE,
     rows |-> [i \in DOMAIN frame |->
                 [Date |-> frame[i].Date,
                  From |-> FieldText(frame[i].From),
                  To |-> FieldText(frame[i].To),
                  Cost_CHF |-> frame[i].Cost_CHF]]]

read_csv(file) ==
    [i \in DOMAIN file.rows |->
        [Date |-> file.rows[i].Date,
         From |-> FieldValue(file.rows[i].From),
         To |-> FieldValue(file.rows[i].To),
         Cost_CHF |-> file.rows[i].Cost_CHF]]

load_data(file) ==
    IF file.exists THEN read_csv(file) ELSE <<>>

\* save_data(df): to_csv, then the "Saved" line.  to_csv raises OSError when the
\* file cannot be opened for writing; the file is then left as it was.
save_data(frame, file, writable) ==
    IF writable
        THEN [raised |-> "none", file |-> to_csv(frame), msgs |-> <<"Saved">>]
        ELSE [raised |-> "OSError", file |-> file, msgs |-> <<>>]

----------------------------------------------------------------------------
(* Handlers                                                                *)

\* A variant of display_data whose "need more" branch also takes remaining = 0.
display_data_NeedAtZero(frame) ==
    IF frame = <<>>
        THEN [msgs |-> <<"No data yet">>, list |-> <<>>]
        ELSE LET total == ColumnSum(frame)
                 remaining == SUBSCRIPTION_COST - total
             IN  [msgs |-> <<"Current Trips">>,
                  list |-> << [total |-> total,
                               remaining |-> remaining,
                               branch |-> IF remaining >= 0 THEN "Need" ELSE "Exceeded",
                               amount |-> IF remaining >= 0 THEN remaining
                                          ELSE abs(remaining)] >>]

\* display_data(df): what option 1 prints.  The per-trip lines are left out; the
\* summary block is kept: total, remaining and the branch of the final message.
display_data(frame) ==
    IF frame = <<>>
        THEN [msgs |-> <<"No data yet">>, list |-> <<>>]
        ELSE LET total == ColumnSum(frame)
                 remaining == SUBSCRIPTION_COST - total
             IN  [msgs |-> <<"Current Trips">>,
                  list |-> << [total |-> total,
                               remaining |-> remaining,
                               branch |-> IF remaining > 0 THEN "Need" ELSE "Exceeded",
                               amount |-> IF remaining > 0 THEN remaining
                                          ELSE abs(remaining)] >>]

\* matplotlib's pie(sizes) refuses a negative wedge size with ValueError.
pie(sizes) ==
    IF \E i \in DOMAIN sizes : sizes[i] < 0 THEN "ValueError" ELSE "none"

\* A variant of plot_coverage whose excess branch also takes exceeded = 0.
plot_coverage_ExcessAtZero(frame) ==
    IF frame = <<>>
        THEN [msgs |-> <<"No data to plot">>, chart |-> <<>>, raised |-> "none"]
        ELSE LET total == ColumnSum(frame)
                 remaining == max(0, SUBSCRIPTION_COST - total)
                 exceeded == max(0, total - SUBSCRIPTION_COST)
                 over == exceeded >= 0
                 sizes == IF over THEN <<SUBSCRIPTION_COST, exceeded>>
                          ELSE <<total, remaining>>
             IN  [msgs |-> <<>>,
                  chart |-> << [labels |-> IF over
                                             THEN <<"Break-even amount", "Excess usage">>
                                             ELSE <<"Used", "Remaining">>,
                                sizes |-> sizes,
                                total |-> total,
                                shown |-> pie(sizes) = "none"] >>,
                  raised |-> pie(sizes)]

\* plot_coverage(df): what option 3 prints and draws.  chart holds the labels and
\* sizes handed to plt.pie; shown tells whether the pie was drawn.
plot_coverage(frame) ==
    IF frame = <<>>
        THEN [msgs |-> <<"No data to plot">>, chart |-> <<>>, raised |-> "none"]
        ELSE LET total == ColumnSum(frame)
                 remaining == max(0, SUBSCRIPTION_COST - total)
                 exceeded == max(0, total - SUBSCRIPTION_COST)
                 over == exceeded > 0
                 sizes == IF over THEN <<SUBSCRIPTION_COST, exceeded>>
                          ELSE <<total, remaining>>
             IN  [msgs |-> <<>>,
                  chart |-> << [labels |-> IF over
                                             THEN <<"Break-even amount", "Excess usage">>
                                             ELSE <<"Used", "Remaining">>,
                                sizes |-> sizes,
                                total |-> total,
                                shown |-> pie(sizes) = "none"] >>,
                  raised |-> pie(sizes)]

\* The date add_entry stores, and whether it printed the "Invalid date" warning.
entry_date(date_input) ==
    IF date_input.kind = "blank"
        THEN [date |-> Today, warned |-> FALSE]
        ELSE LET date_obj == strptime(date_input)
             IN  IF date_obj.ok
                     THEN [date |-> strftime(date_obj), warned |-> FALSE]
                     ELSE [date |-> Today, warned |-> TRUE]

new_row(date, from_loc, to_loc, cost) ==
    [Date |-> date, From |-> Str(from_loc), To |-> Str(to_loc), Cost_CHF |-> cost]

\* A variant of add_entry that goes on with cost 0 when the cost does not parse.
add_entry_KeepsBadCost(frame, date_input, from_input, to_input, cost_input) ==
    LET dt == entry_date(date_input)
        cost == float(cost_input)
        warn == IF dt.warned THEN <<"Invalid date, using today">> ELSE <<>>
    IN  [df |-> Append(frame, new_row(dt.date, strip(from_input), strip(to_input), cost.v)),
         msgs |-> warn \o (IF cost.ok THEN <<>> ELSE <<"Invalid cost">>) \o <<"Added">>,
         save |-> TRUE]

\* A variant of add_entry that puts the new row first.
add_entry_Prepends(frame, date_input, from_input, to_input, cost_input) ==
    LET dt == entry_date(date_input)
        cost == float(cost_input)
        warn == IF dt.warned THEN <<"Invalid date, using today">> ELSE <<>>
    IN  IF ~cost.ok
            THEN [df |-> frame, msgs |-> warn \o <<"Invalid cost">>, save |-> FALSE]
            ELSE [df |-> <<new_row(dt.date, strip(from_input), strip(to_input), cost.v)>>
                         \o frame,
                  msgs |-> warn \o <<"Added">>,
                  save |-> TRUE]

\* add_entry(df) up to its call of save_data: the frame it has built, what it has
\* printed, and whether it goes on to save_data (FALSE: it returned df unchanged).
add_entry(frame, date_input, from_input, to_input, cost_input) ==
    LET dt == entry_date(date_input)
        from_loc == strip(from_input)
        to_loc == strip(to_input)
        cost == float(cost_input)
        warn == IF dt.warned THEN <<"Invalid date, using today">> ELSE <<>>
    IN  IF ~cost.ok
            THEN [df |-> frame, msgs |-> warn \o <<"Invalid cost">>, save |-> FALSE]
            ELSE [df |-> Append(frame, new_row(dt.date, from_loc, to_loc, cost.v)),
                  msgs |-> warn \o <<"Added">>,
                  save |-> TRUE]

Printed(choice, msgs, list, chart) ==
    [choice |-> choice, msgs |-> msgs, list |-> list, chart |-> chart]

----------------------------------------------------------------------------
(* The session: main                                                       *)

\* The rows add_entry can build.
AddableRows ==
    { new_row(entry_date(di).date, strip(f), strip(t), float(c).v) :
        di \in DateInputs, f \in FromInputs, t \in ToInputs,
        c \in {x \in CostInputs : float(x).ok} }

\* The file at startup: absent, or left by an earlier session (header only, or
\* one trip).
InitialFiles ==
    {NoFile, to_csv(<<>>)} \cup { to_csv(<<r>>) : r \in AddableRows }

\* main, line 143: df = load_data(), then the first Choice prompt.
Init ==
    /\ storage \in InitialFiles
    /\ df = load_data(storage)
    /\ pc = "menu"
    /\ out = Printed("", <<>>, <<>>, <<>>)
    /\ exc = "none"
    /\ typed = NoInput
    /\ saves = 0

\* A variant of option 1 that writes the ledger back after showing it.
ShowData_Saves ==
    /\ pc = "menu"
    /\ LET r == display_data(df)
       IN  out' = Printed("1", r.msgs \o <<"Saved">>, r.list, <<>>)
    /\ storage' = to_csv(df)
    /\ saves' = saves + 1
    /\ typed' = NoInput
    /\ UNCHANGED <<pc, df, exc>>

\* choice == "1": display_data(df)
ShowData ==
    /\ pc = "menu"
    /\ LET r == display_data(df)
       IN  out' = Printed("1", r.msgs, r.list, <<>>)
    /\ typed' = NoInput
    /\ UNCHANGED <<pc, df, storage, exc, saves>>

\* choice == "2": df = add_entry(df).  An exception raised by save_data leaves
\* add_entry and main before the assignment to main's df.
AddTrip(date_input, from_input, to_input, cost_input, writable) ==
    /\ pc = "menu"
    /\ Len(df) < MaxLen
    /\ typed' = Typed(date_input, from_input, to_input, cost_input)
    /\ LET r == add_entry(df, date_input, from_input, to_input, cost_input)
           s == save_data(r.df, storage, writable)
       IN  IF ~r.save
               THEN /\ df' = r.df
                    /\ out' = Printed("2", r.msgs, <<>>, <<>>)
                    /\ UNCHANGED <<pc, storage, exc, saves>>
           ELSE IF s.raised = "none"
               THEN /\ df' = r.df
                    /\ storage' = s.file
                    /\ saves' = saves + 1
                    /\ out' = Printed("2", r.msgs \o s.msgs, <<>>, <<>>)
                    /\ UNCHANGED <<pc, exc>>
           ELSE /\ storage' = s.file
                /\ saves' = saves + 1
                /\ out' = Printed("2", r.msgs \o s.msgs, <<>>, <<>>)
                /\ exc' = s.raised
                /\ pc' = "crashed"
                /\ UNCHANGED df

\* choice == "3": plot_coverage(df).  An exception raised by plt.pie leaves main.
PlotChart ==
    /\ pc = "menu"
    /\ LET r == plot_coverage(df)
       IN  /\ out' = Printed("3", r.msgs, <<>>, r.chart)
           /\ exc' = r.raised
           /\ pc' = IF r.raised = "none" THEN "menu" ELSE "crashed"
    /\ typed' = NoInput
    /\ UNCHANGED <<df, storage, saves>>

\* choice == "4": break
Exit ==
    /\ pc = "menu"
    /\ pc' = "done"
    /\ out' = Printed("4", <<"Bye">>, <<>>, <<>>)
    /\ typed' = NoInput
    /\ UNCHANGED <<df, storage, exc, saves>>

\* else: "Invalid choice"
InvalidChoice ==
    /\ pc = "menu"
    /\ \E choice \in Choices \ {"1", "2", "3", "4"} :
          out' = Printed("other", <<"Invalid choice">>, <<>>, <<>>)
    /\ typed' = NoInput
    /\ UNCHANGED <<pc, df, storage, exc, saves>>

AddTripStep ==
    \E date_input \in DateInputs, from_input \in FromInputs, to_input \in ToInputs,
       cost_input \in CostInputs, writable \in BOOLEAN :
        AddTrip(date_input, from_input, to_input, cost_input, writable)

Next ==
    \/ ShowData
    \/ AddTripStep
    \/ PlotChart
    \/ Exit
    \/ InvalidChoice

Spec == Init /\ [][Next]_vars

----------------------------------------------------------------------------
(* Properties                                                              *)

Has(seq, x) == \E i \in DOMAIN seq : seq[i] = x

IsPrefix(a, b) == Len(a) <= Len(b) /\ SubSeq(b, 1, Len(a)) = a

ParsedCosts == {c \in CostInputs : c.kind = "num"}
UnparsedCosts == {c \in CostInputs : c.kind # "num"}

\* The sum of the cost of all records, by position.
RECURSIVE SumUpTo(_, _)
SumUpTo(frame, n) ==
    IF n = 0 THEN 0 ELSE SumUpTo(frame, n - 1) + frame[n].Cost_CHF

LedgerTotal == SumUpTo(df, Len(df))

\* C1: whenever an add has completed and the menu is prompting again, the ledger
\* load() would return from storage equals the in-memory ledger (same records,
\* same order).
C1_ReloadEqualsMemory ==
    (pc = "menu" /\ saves > 0) => load_data(storage) = df

\* C2: an add whose cost input does not parse aborts the whole add: the ledger
\* is as before, save is not invoked and storage is untouched, the error is
\* printed, and the session is back at the menu.
C2_BadCostAbortsAdd ==
    [][(pc = "menu" /\ out'.choice = "2" /\ typed'.cost \in UnparsedCosts) =>
            /\ UNCHANGED <<df, storage, saves>>
            /\ Has(out'.msgs, "Invalid cost")
            /\ ~Has(out'.msgs, "Added")
            /\ ~Has(out'.msgs, "Saved")
            /\ pc' = "menu"
            /\ exc' = "none"]_vars

\* An aborted add has happened on a ledger that holds a trip.
C2_Witness ==
    /\ out.choice = "2"
    /\ typed.cost \in UnparsedCosts
    /\ Has(out.msgs, "Invalid cost")
    /\ df # <<>>
    /\ storage.exists
    /\ pc = "menu"

\* The record add_entry builds from what was typed.
TypedRow(in) ==
    new_row(entry_date(in.date).date, strip(in.from), strip(in.to), in.cost.v)

\* C3: when save fails during an add, the session does not terminate and the
\* in-memory ledger holds the record just added.
C3_SaveFailureKeepsSession ==
    [][(pc = "menu" /\ out'.choice = "2" /\ exc' = "OSError") =>
            /\ pc' = "menu"
            /\ df' = Append(df, TypedRow(typed'))]_vars

\* The non-blank date inputs that are no DD.MM.YYYY date: free text, and the
\* impossible calendar date 31.02.2025.
C4_BadDates == {JunkDate, Feb31}

C5_AppendOnly ==
    [][/\ IsPrefix(df, df')
       /\ (out'.choice = "2" /\ Has(out'.msgs, "Saved"))
              => Len(df') = Len(df) + 1
       /\ ~(out'.choice = "2" /\ Has(out'.msgs, "Saved"))
              => df' = df]_vars

\* A second trip has been added behind a different first one.
C5_Witness ==
    /\ Len(df) = 2
    /\ df[1] # df[2]
    /\ out.choice = "2"
    /\ Has(out.msgs, "Saved")

\* C6: the session leaves the menu only through Exit (choice 4): list, add,
\* chart and an invalid choice all return to the menu prompt.
C6_OnlyExitEndsSession ==
    [][(pc = "menu" /\ pc' # "menu") => (out'.choice = "4" /\ pc' = "done")]_vars

\* C7: for a non-empty ledger List computes total as the sum of the costs and
\* remaining as subscription - total, says "need" (showing remaining) exactly
\* when remaining > 0 and otherwise "exceeded" (showing |remaining|); at
\* total = subscription it says "exceeded" by 0.
C7_ListClassification ==
    out.choice = "1" =>
        /\ (out.list = <<>>) <=> (df = <<>>)
        /\ df # <<>> =>
            LET s == out.list[1]
            IN  /\ s.total = LedgerTotal
                /\ s.remaining = SUBSCRIPTION_COST - LedgerTotal
                /\ (s.branch = "Need") <=> (SUBSCRIPTION_COST - LedgerTotal > 0)
                /\ (s.branch = "Exceeded") <=> (SUBSCRIPTION_COST - LedgerTotal <= 0)
                /\ s.branch = "Need" => s.amount = SUBSCRIPTION_COST - LedgerTotal
                /\ s.branch = "Exceeded" => s.amount = LedgerTotal - SUBSCRIPTION_COST
                /\ LedgerTotal = SUBSCRIPTION_COST => (s.branch = "Exceeded" /\ s.amount = 0)

\* List has been shown for a ledger whose total is exactly the subscription.
C7_Witness ==
    /\ out.choice = "1"
    /\ out.list # <<>>
    /\ LedgerTotal = SUBSCRIPTION_COST
    /\ out.list[1].branch = "Exceeded"

\* C8: Chart renders if and only if the ledger is non-empty, and the segments
\* are {total, subscription - total} when total <= subscription and
\* {subscription, total - subscription} when total > subscription.
C8_ChartRendersIffNonEmpty ==
    out.choice = "3" =>
        /\ (df = <<>>) => (out.chart = <<>> /\ Has(out.msgs, "No data to plot"))
        /\ (df # <<>>) =>
            /\ out.chart # <<>>
            /\ out.chart[1].shown
            /\ LedgerTotal <= SUBSCRIPTION_COST =>
                   out.chart[1].sizes = <<LedgerTotal, SUBSCRIPTION_COST - LedgerTotal>>
            /\ LedgerTotal > SUBSCRIPTION_COST =>
                   out.chart[1].sizes = <<SUBSCRIPTION_COST, LedgerTotal - SUBSCRIPTION_COST>>

\* C9: List, Chart and an invalid choice leave the in-memory ledger and the file
\* as they are and never invoke save; the file is written, and save invoked,
\* only by an add.
C9_ReadsArePure ==
    [][/\ (ShowData \/ PlotChart \/ InvalidChoice)
            => UNCHANGED <<df, storage, saves>>
       /\ (storage' # storage \/ saves' # saves)
            => (out'.choice = "2" /\ Has(out'.msgs, "Added"))]_vars

\* A read (list, chart or invalid choice) has been handled after an add, on a
\* non-empty ledger.
C9_Witness ==
    /\ out.choice \in {"1", "3", "other"}
    /\ df # <<>>
    /\ saves > 0
    /\ pc = "menu"

\* C10: for the same non-empty ledger List and Chart take the same branch
\* whenever total differs from the subscription; at total = subscription List
\* takes the over branch (exceeded by 0) and Chart the under branch
\* (Used/Remaining with remaining 0).
C10_ListAndChartBranches ==
    df # <<>> =>
        LET l == display_data(df).list[1]
            c == plot_coverage(df).chart[1]
        IN  /\ LedgerTotal # SUBSCRIPTION_COST =>
                ((l.branch = "Need") <=> (c.labels = <<"Used", "Remaining">>))
            /\ LedgerTotal = SUBSCRIPTION_COST =>
                /\ l.branch = "Exceeded"
                /\ l.amount = 0
                /\ c.labels = <<"Used", "Remaining">>
                /\ c.sizes = <<SUBSCRIPTION_COST, 0>>

\* The chart has been drawn for a ledger whose total is exactly the subscription.
C10_Witness ==
    /\ out.choice = "3"
    /\ out.chart # <<>>
    /\ LedgerTotal = SUBSCRIPTION_COST
    /\ out.chart[1].labels = <<"Used", "Remaining">>

====
